---- MODULE Spec2Model ----
(***************************************************************************)
(* A model of scripts/parse_excel.py (class AttestationDataParser).        *)
(*                                                                         *)
(* Representation.                                                         *)
(*  - Text that the code inspects character by character (header cells,    *)
(*    column labels of the indicator sheet, indicator identifiers) is a    *)
(*    sequence of one-character strings.  Ukrainian text is written in     *)
(*    Latin transliteration, letter for letter where the code depends on   *)
(*    the letters.                                                         *)
(*  - Text that the code only compares for equality (sheet names, the      *)
(*    category and group labels, the column labels of the result sheets)   *)
(*    is a string.                                                         *)
(*  - A spreadsheet cell is a record: [t |-> "nan"], [t |-> "str", s |->   *)
(*    chars], [t |-> "int", n |-> integer] or [t |-> "num", v |-> value    *)
(*    in hundredths].                                                      *)
(*  - Python's None is the record None; a DataFrame is a record            *)
(*    [tag |-> "DataFrame", columns |-> labels, rows |-> rows].            *)
(***************************************************************************)
EXTENDS Integers, Sequences, FiniteSets, TLC

VARIABLES
    workbook,            \* the Excel file: sheet name -> table (read-only input)
    sheets,              \* self.sheets
    consolidated_data,   \* self.consolidated_data
    validation_results,  \* self.validation_results
    arg,                 \* the arguments of the call under way (pure-function specifications)
    ret,                 \* what the last call returned or raised
    fs,                  \* the output directory on disk: None, or file name -> content
    locals               \* the locals of _validate_formula_samples when it returned

vars == <<workbook, sheets, consolidated_data, validation_results, arg, ret, fs, locals>>

None == [tag |-> "None"]

EmptyDict == [k \in {} |-> k]

NoCall == [op |-> "none", raised |-> "None", value |-> None]

NoLocals == [set |-> FALSE]

Returned(op, v) == [op |-> op, raised |-> "None", value |-> v]

Raised(op, e) == [op |-> op, raised |-> e, value |-> None]

(***************************************************************************)
(* Bounds of the model.                                                    *)
(***************************************************************************)
MaxHdrCols == 3

(***************************************************************************)
(* Characters and Python's str operations.                                 *)
(***************************************************************************)
Digits == {"0", "1", "2", "3", "4", "5", "6", "7", "8", "9"}

Whitespace == {" ", "\n", "\t"}

DigitChar == <<"0", "1", "2", "3", "4", "5", "6", "7", "8", "9">>

\* The decimal digits of a natural number, as str(n) writes them.
RECURSIVE Decimal(_)
Decimal(n) == IF n < 10 THEN <<DigitChar[n + 1]>>
              ELSE Decimal(n \div 10) \o <<DigitChar[(n % 10) + 1]>>

NaN == [t |-> "nan"]

Str(s) == [t |-> "str", s |-> s]

IntCell(n) == [t |-> "int", n |-> n]

Num(v) == [t |-> "num", v |-> v]

\* pd.notna(value)
notna(value) == value.t # "nan"

\* str(value) for the cell values of the model.
str(value) == CASE value.t = "str" -> value.s
                [] value.t = "int" -> IF value.n < 0 THEN <<"-">> \o Decimal(-value.n)
                                      ELSE Decimal(value.n)
                [] value.t = "num" -> IF value.v < 0 THEN <<"-">> \o Decimal((-value.v) \div 100) \o <<".">> \o Decimal((-value.v) % 100)
                                      ELSE Decimal(value.v \div 100) \o <<".">> \o Decimal(value.v % 100)
                [] OTHER -> <<"n", "a", "n">>

RECURSIVE lstrip(_)
lstrip(s) == IF s # <<>> /\ Head(s) \in Whitespace THEN lstrip(Tail(s)) ELSE s

RECURSIVE rstrip(_)
rstrip(s) == IF s # <<>> /\ s[Len(s)] \in Whitespace
             THEN rstrip(SubSeq(s, 1, Len(s) - 1)) ELSE s

\* str.strip()
strip(s) == rstrip(lstrip(s))

(***************************************************************************)
(* re.match(r'^I(\d+)$', value_str): the digit run matched by the group,   *)
(* or <<>> when there is no match.  \d+ is greedy; $ matches at the end of *)
(* the string and also just before a newline that ends the string.         *)
(***************************************************************************)
RECURSIVE DigitRunEnd(_, _)
DigitRunEnd(s, i) == IF i <= Len(s) /\ s[i] \in Digits THEN DigitRunEnd(s, i + 1) ELSE i

AtEnd(s, i) == \/ i = Len(s) + 1
               \/ (i = Len(s) /\ s[i] = "\n")

re_match_indicator_nostrip_anchor(s) ==
    IF Len(s) >= 2 /\ s[1] = "I" /\ s[2] \in Digits
    THEN SubSeq(s, 2, DigitRunEnd(s, 2) - 1)
    ELSE <<>>

re_match_indicator(s) ==
    IF Len(s) >= 2 /\ s[1] = "I" /\ s[2] \in Digits
    THEN LET e == DigitRunEnd(s, 2)
         IN  IF AtEnd(s, e) THEN SubSeq(s, 2, e - 1) ELSE <<>>
    ELSE <<>>

(***************************************************************************)
(* _extract_indicator_columns: the loop over enumerate(header_row), col    *)
(* being the 1-based position of the cell (col_idx = col - 1).             *)
(***************************************************************************)
DictSet(d, k, v) == [x \in (DOMAIN d) \cup {k} |-> IF x = k THEN v ELSE d[x]]

DictSetIfAbsent(d, k, v) == IF k \in DOMAIN d THEN d ELSE DictSet(d, k, v)

RecordIndicator(d, k, v) == DictSet(d, k, v)

RECURSIVE ExtractLoop(_, _, _)
ExtractLoop(header_row, col, indicator_columns) ==
    IF col > Len(header_row) THEN indicator_columns
    ELSE LET value == header_row[col]
             value_str == strip(str(value))
             indicator_num == re_match_indicator(value_str)
         IN  IF notna(value) /\ indicator_num # <<>>
             THEN ExtractLoop(header_row, col + 1,
                      RecordIndicator(indicator_columns, <<"I">> \o indicator_num, col - 1))
             ELSE ExtractLoop(header_row, col + 1, indicator_columns)

\* df_raw is the sequence of its rows; iloc[0] of an empty frame raises IndexError.
extract_indicator_columns(df_raw) ==
    IF Len(df_raw) = 0 THEN Raised("_extract_indicator_columns", "IndexError")
    ELSE Returned("_extract_indicator_columns", ExtractLoop(df_raw[1], 1, EmptyDict))

(***************************************************************************)
(* Header rows the resolver is applied to.                                 *)
(***************************************************************************)
HeaderCells ==
    { Str(<<"I", "1">>), Str(<<"f", "o", "o">>), Str(<<"I", "3", "7">>),
      Str(<<"I", "1", "*">>), Str(<<>>), NaN,
      Str(<<" ", "I", "1", " ">>), Str(<<"I", "3", "7", "\n">>), Str(<<"I">>),
      Str(<<"i", "1">>), Str(<<"I", " ", "1">>), Str(<<"I", "0", "1">>), IntCell(1) }

ExampleHeaderRow ==
    << Str(<<"I", "1">>), Str(<<"f", "o", "o">>), Str(<<"I", "3", "7">>),
       Str(<<"I", "1", "*">>), Str(<<>>) >>

DecoyRow == << Str(<<"I", "9">>), Str(<<"I", "9">>), Str(<<"I", "9">>),
               Str(<<"I", "9">>), Str(<<"I", "9">>) >>

HeaderRows == UNION { [1..n -> HeaderCells] : n \in 0..MaxHdrCols }

HeaderInputs ==
    { <<row>> : row \in HeaderRows }
      \cup { <<>>, <<ExampleHeaderRow>>, <<ExampleHeaderRow, DecoyRow>> }

InitParser ==
    /\ sheets = EmptyDict
    /\ consolidated_data = None
    /\ validation_results = EmptyDict

InitHeader ==
    /\ workbook = EmptyDict
    /\ InitParser
    /\ arg \in { [df_raw |-> d] : d \in HeaderInputs }
    /\ ret = NoCall
    /\ fs = None
    /\ locals = NoLocals

ExtractIndicatorColumns ==
    /\ ret = NoCall
    /\ ret' = extract_indicator_columns(arg.df_raw)
    /\ UNCHANGED <<workbook, sheets, consolidated_data, validation_results, arg, fs, locals>>

NextHeader == ExtractIndicatorColumns

SpecHeader == InitHeader /\ [][NextHeader]_vars

(***************************************************************************)
(* The Methodology Registry (class constants).  Weights are in hundredths. *)
(***************************************************************************)
TOTAL_KI == 5400

NumIndicators == 37

\* The weights with 0.25 for I23 in place of 0.2.
IndicatorWeightsMistyped ==
    << 100, 100, 100, 100, 50, 100,
       100, 300, 200, 100, 300, 200, 100, 50,
       150, 120, 100, 100, 150, 75, 35, 50, 25,
       100, 100, 300, 100, 100, 400, 50, 200,
       400, 100, 200, 50, 200, 400 >>

IndicatorWeights ==
    << 100, 100, 100, 100, 50, 100,
       100, 300, 200, 100, 300, 200, 100, 50,
       150, 120, 100, 100, 150, 75, 35, 50, 20,
       100, 100, 300, 100, 100, 400, 50, 200,
       400, 100, 200, 50, 200, 400 >>

Indicator(n) == <<"I">> \o Decimal(n)

INDICATORS_KI ==
    [k \in {Indicator(n) : n \in 1..NumIndicators} |->
        IndicatorWeights[CHOOSE n \in 1..NumIndicators : Indicator(n) = k]]

RECURSIVE SumValues(_, _)
SumValues(d, keys) ==
    IF keys = {} THEN 0
    ELSE LET k == CHOOSE x \in keys : TRUE
         IN  d[k] + SumValues(d, keys \ {k})

Abs(x) == IF x < 0 THEN -x ELSE x

(***************************************************************************)
(* sorted(list_of_str): Python orders strings by code point, character by  *)
(* character, a proper prefix before the longer string.                    *)
(***************************************************************************)
CodePoint(c) ==
    CASE c \in Digits -> 48 + (CHOOSE i \in 0..9 : DigitChar[i + 1] = c)
      [] c = "I" -> 73
      [] c = " " -> 32
      [] c = "*" -> 42
      [] OTHER -> 100

RECURSIVE StrLess(_, _)
StrLess(a, b) ==
    IF b = <<>> THEN FALSE
    ELSE IF a = <<>> THEN TRUE
    ELSE IF Head(a) = Head(b) THEN StrLess(Tail(a), Tail(b))
    ELSE CodePoint(Head(a)) < CodePoint(Head(b))

RECURSIVE Insert(_, _)
Insert(x, seq) ==
    IF seq = <<>> THEN <<x>>
    ELSE IF StrLess(x, Head(seq)) THEN <<x>> \o seq
    ELSE <<Head(seq)>> \o Insert(x, Tail(seq))

RECURSIVE InsertionSort(_)
InsertionSort(S) ==
    IF S = {} THEN <<>>
    ELSE LET x == CHOOSE y \in S : TRUE
         IN  Insert(x, InsertionSort(S \ {x}))

\* Every key a column map of the model can hold, in sorted order.
SortedKeys ==
    InsertionSort({Indicator(n) : n \in 1..NumIndicators}
                    \cup {<<"I", "4", "0">>, <<"I", "0", "5">>})

\* sorted(S) for a set S of keys of the model: the members of S in code-point order.
sorted(S) == SelectSeq(SortedKeys, LAMBDA x : x \in S)

(***************************************************************************)
(* DataFrames: columns (labels), index (row labels) and rows (cells by     *)
(* column position).                                                       *)
(***************************************************************************)
DataFrame(columns, index, rows) ==
    [tag |-> "DataFrame", columns |-> columns, index |-> index, rows |-> rows]

len(df) == Len(df.rows)

ColumnSet(df) == {df.columns[i] : i \in 1..Len(df.columns)}

\* df.iloc[idx][col] for a frame whose column labels are distinct (idx 0-based).
Cell(df, idx, col) ==
    df.rows[idx + 1][CHOOSE i \in 1..Len(df.columns) : df.columns[i] = col]

(***************************************************************************)
(* Column labels of the indicator sheet (inputs).                          *)
(***************************************************************************)
\* Klasyfikatsiina otsinka
ColClassification == <<"K", "l", "a", "s", "y", "f", "i", "k", "a", "t", "s", "i", "i", "n", "a", " ", "o", "t", "s", "i", "n", "k", "a">>

\* Ekspertna otsinka
ColExpert == <<"E", "k", "s", "p", "e", "r", "t", "n", "a", " ", "o", "t", "s", "i", "n", "k", "a">>

\* Rehionalnyi koiefitsiient
ColRegional == <<"R", "e", "h", "i", "o", "n", "a", "l", "n", "y", "i", " ", "k", "o", "i", "e", "f", "i", "t", "s", "i", "i", "e", "n", "t">>

\* Koefitsiient ruinuvan'
ColDestruction == <<"K", "o", "e", "f", "i", "t", "s", "i", "i", "e", "n", "t", " ", "r", "u", "i", "n", "u", "v", "a", "n", "'">>

\* Atestatsiina otsinka
ColFinal == <<"A", "t", "e", "s", "t", "a", "t", "s", "i", "i", "n", "a", " ", "o", "t", "s", "i", "n", "k", "a">>

\* Nazva
ColName == <<"N", "a", "z", "v", "a">>

\* Klasyfikatsiina otsinka.1
ColClassification1 == <<"K", "l", "a", "s", "y", "f", "i", "k", "a", "t", "s", "i", "i", "n", "a", " ", "o", "t", "s", "i", "n", "k", "a", ".", "1">>

\* Atestatsiina otsinka.1
ColFinal1 == <<"A", "t", "e", "s", "t", "a", "t", "s", "i", "i", "n", "a", " ", "o", "t", "s", "i", "n", "k", "a", ".", "1">>

\* Klasyfikatsiina ta ekspertna otsinka
ColClassExpert == <<"K", "l", "a", "s", "y", "f", "i", "k", "a", "t", "s", "i", "i", "n", "a", " ", "t", "a", " ", "e", "k", "s", "p", "e", "r", "t", "n", "a", " ", "o", "t", "s", "i", "n", "k", "a">>

\* Rehionalnyi koefitsiient
ColRegionalStd == <<"R", "e", "h", "i", "o", "n", "a", "l", "n", "y", "i", " ", "k", "o", "e", "f", "i", "t", "s", "i", "i", "e", "n", "t">>

\* Ruinuvannia
ColDestructionAlt == <<"R", "u", "i", "n", "u", "v", "a", "n", "n", "i", "a">>

\* Ekspertna
ColExpertOnly == <<"E", "k", "s", "p", "e", "r", "t", "n", "a">>

\* Atestatsiina otsinka (ruinuvan')
ColFinalDestr == <<"A", "t", "e", "s", "t", "a", "t", "s", "i", "i", "n", "a", " ", "o", "t", "s", "i", "n", "k", "a", " ", "(", "r", "u", "i", "n", "u", "v", "a", "n", "'", ")">>

BaseColumns == <<ColClassification, ColExpert, ColRegional, ColDestruction, ColFinal>>

LabelPool ==
    { ColClassification, ColExpert, ColRegional, ColDestruction, ColFinal, ColName,
      ColClassification1, ColFinal1, ColClassExpert, ColRegionalStd, ColDestructionAlt,
      ColExpertOnly, ColFinalDestr }

(***************************************************************************)
(* _validate_formula_samples: the search for the five role columns.        *)
(***************************************************************************)
UpperCase == <<"A", "B", "C", "D", "E", "F", "G", "H", "I", "J", "K", "L", "M", "N", "O", "P", "Q", "R", "S", "T", "U", "V", "W", "X", "Y", "Z">>

LowerCase == <<"a", "b", "c", "d", "e", "f", "g", "h", "i", "j", "k", "l", "m", "n", "o", "p", "q", "r", "s", "t", "u", "v", "w", "x", "y", "z">>

lower(s) ==
    [i \in 1..Len(s) |->
        IF \E j \in 1..Len(UpperCase) : UpperCase[j] = s[i]
        THEN LowerCase[CHOOSE j \in 1..Len(UpperCase) : UpperCase[j] = s[i]]
        ELSE s[i]]

\* sub in s
contains(sub, s) ==
    \E i \in 1..(Len(s) - Len(sub) + 1) : SubSeq(s, i, i + Len(sub) - 1) = sub

\* klasyfikatsiina, otsinka, ekspertna, rehionalnyi, koiefits, ruinuvan',
\* ruinuvannia, atestatsiina: the substrings of lines 355-363, transliterated.
KwKlasyfikatsiina == <<"k", "l", "a", "s", "y", "f", "i", "k", "a", "t", "s", "i", "i", "n", "a">>

KwOtsinka == <<"o", "t", "s", "i", "n", "k", "a">>

KwEkspertna == <<"e", "k", "s", "p", "e", "r", "t", "n", "a">>

KwRehionalnyi == <<"r", "e", "h", "i", "o", "n", "a", "l", "n", "y", "i">>

KwKoiefits == <<"k", "o", "i", "e", "f", "i", "t", "s">>

KwRuinuvanSoft == <<"r", "u", "i", "n", "u", "v", "a", "n", "'">>

KwRuinuvannia == <<"r", "u", "i", "n", "u", "v", "a", "n", "n", "i", "a">>

KwAtestatsiina == <<"a", "t", "e", "s", "t", "a", "t", "s", "i", "i", "n", "a">>

Roles == <<"classification", "expert", "regional", "destruction", "final">>

\* The if/elif chain of lines 354-364 for one column: the role variable the
\* column is assigned to, or "none".
RoleOf(col) ==
    LET col_str == lower(col)
    IN  IF contains(KwKlasyfikatsiina, col_str) /\ contains(KwOtsinka, col_str)
            THEN "classification"
        ELSE IF contains(KwEkspertna, col_str) /\ contains(KwOtsinka, col_str)
            THEN "expert"
        ELSE IF contains(KwRehionalnyi, col_str) /\ contains(KwKoiefits, col_str)
            THEN "regional"
        ELSE IF contains(KwRuinuvanSoft, col_str) \/ contains(KwRuinuvannia, col_str)
            THEN "destruction"
        ELSE IF contains(KwAtestatsiina, col_str) /\ contains(KwOtsinka, col_str)
            THEN "final"
        ELSE "none"

\* RoleOf, tabulated for the column labels of the model.
RoleOfLabel == [col \in LabelPool |-> RoleOf(col)]

\* None for a role variable (no column label of the model is empty).
NoCol == <<>>

NoRoles == [r \in {Roles[i] : i \in 1..Len(Roles)} |-> NoCol]

AssignFirst(role_cols, role, col) ==
    IF role = "none" \/ role_cols[role] # NoCol THEN role_cols
    ELSE [role_cols EXCEPT ![role] = col]

\* classification_col = col, expert_col = col, ...
AssignRole(role_cols, role, col) ==
    IF role = "none" THEN role_cols ELSE [role_cols EXCEPT ![role] = col]

RECURSIVE FindRoleColumns(_, _, _)
FindRoleColumns(columns, i, role_cols) ==
    IF i > Len(columns) THEN role_cols
    ELSE FindRoleColumns(columns, i + 1,
             AssignRole(role_cols, RoleOfLabel[columns[i]], columns[i]))

\* all([classification_col, expert_col, regional_col, destruction_col, final_col])
AllRolesFound(role_cols) == \A r \in DOMAIN role_cols : role_cols[r] # NoCol

(***************************************************************************)
(* _validate_formula_samples: the sample loop.                             *)
(***************************************************************************)
SAMPLE_LIMIT == 5

Min(a, b) == IF a < b THEN a ELSE b

Max(a, b) == IF a < b THEN b ELSE a

IsDigitString(s) == Len(s) > 0 /\ \A i \in 1..Len(s) : s[i] \in Digits

RECURSIVE ParseDecimal(_)
ParseDecimal(s) ==
    IF Len(s) = 0 THEN 0
    ELSE 10 * ParseDecimal(SubSeq(s, 1, Len(s) - 1))
           + (CHOOSE d \in 0..9 : DigitChar[d + 1] = s[Len(s)])

\* pd.to_numeric(value, errors='coerce') on one cell: a number (in hundredths)
\* or NaN.  The strings of the model are digit strings or not numbers at all.
to_numeric(value) ==
    CASE value.t = "num" -> value
      [] value.t = "int" -> Num(100 * value.n)
      [] value.t = "str" /\ IsDigitString(value.s) -> Num(100 * ParseDecimal(value.s))
      [] OTHER -> NaN

\* abs(A_calculated - A_actual) / max(A_actual, 0.01) < 0.001, the five values
\* in hundredths: |(k+e)rd/10^6 - a/100| / (max(a,1)/100) < 1/1000.
WithinTolerance(k, e, r, d, a) ==
    Abs((k + e) * r * d - 10000 * a) < 10 * Max(a, 1)

\* Lines 373-384 for the row at position idx: does the row add to matches?
RowMatches(df, role_cols, idx) ==
    LET K == to_numeric(Cell(df, idx, role_cols["classification"]))
        E == to_numeric(Cell(df, idx, role_cols["expert"]))
        RPI == to_numeric(Cell(df, idx, role_cols["regional"]))
        KRI == to_numeric(Cell(df, idx, role_cols["destruction"]))
        A_actual == to_numeric(Cell(df, idx, role_cols["final"]))
    IN  /\ notna(K) /\ notna(E) /\ notna(RPI) /\ notna(KRI) /\ notna(A_actual)
        /\ WithinTolerance(K.v, E.v, RPI.v, KRI.v, A_actual.v)

RECURSIVE CountMatches(_, _, _, _)
CountMatches(df, role_cols, idx, sample_size) ==
    IF idx >= sample_size THEN 0
    ELSE (IF RowMatches(df, role_cols, idx) THEN 1 ELSE 0)
           + CountMatches(df, role_cols, idx + 1, sample_size)

SampleSizeAll(df) == len(df)

\* sample_size = min(5, len(dovidnyky_df))
SampleSize(df) == Min(SAMPLE_LIMIT, len(df))

\* matches >= sample_size * 0.8
ThresholdMet(matches, sample_size) == 10 * matches >= 8 * sample_size

WarnFormula(matches, sample_size) ==
    [msg |-> "formula not validated", matches |-> matches, sample_size |-> sample_size]

WarnNoColumns == [msg |-> "formula columns not found", matches |-> 0, sample_size |-> 0]

FormulaFailureToErrors(validation, w) ==
    [validation EXCEPT !.errors = Append(@, w)]

\* validation['warnings'].append(...) of lines 392 and 395
FormulaFailure(validation, w) ==
    [validation EXCEPT !.warnings = Append(@, w)]

\* The whole of _validate_formula_samples: the validation dict as it leaves
\* it, and its locals.
validate_formula_samples(dovidnyky_df, indicator_columns, validation) ==
    LET role_cols == FindRoleColumns(dovidnyky_df.columns, 1, NoRoles)
    IN  IF AllRolesFound(role_cols)
        THEN LET sample_size == SampleSize(dovidnyky_df)
                 matches == CountMatches(dovidnyky_df, role_cols, 0, sample_size)
             IN  [validation |->
                     IF ThresholdMet(matches, sample_size)
                     THEN [validation EXCEPT !.formula_valid = TRUE]
                     ELSE FormulaFailure(validation, WarnFormula(matches, sample_size)),
                  locals |-> [set |-> TRUE, role_cols |-> role_cols, sampled |-> TRUE,
                              sample_size |-> sample_size, matches |-> matches]]
        ELSE [validation |-> FormulaFailure(validation, WarnNoColumns),
              locals |-> [set |-> TRUE, role_cols |-> role_cols, sampled |-> FALSE,
                          sample_size |-> 0, matches |-> 0]]

(***************************************************************************)
(* validate_methodology.                                                   *)
(***************************************************************************)
ErrKiSum(ki_sum) == [msg |-> "Ki sum mismatch", ki_sum |-> ki_sum]

MissingOfAll(expected_indicators, found_indicators) ==
    (expected_indicators \cup found_indicators) \ (expected_indicators \cap found_indicators)

\* expected_indicators - found_indicators
MissingOf(expected_indicators, found_indicators) == expected_indicators \ found_indicators

\* ki_sum = sum(self.INDICATORS_KI.values())
KiSum == SumValues(INDICATORS_KI, DOMAIN INDICATORS_KI)

validate_methodology(indicator_columns, dovidnyky_df, results_df) ==
    LET found_indicators == DOMAIN indicator_columns
        expected_indicators == DOMAIN INDICATORS_KI
        ki_sum == KiSum
        ki_ok == Abs(ki_sum - TOTAL_KI) < 1
        validation ==
            [total_institutions |-> len(results_df),
             total_dovidnyky |-> len(dovidnyky_df),
             indicators_found |-> sorted(found_indicators),
             indicators_missing |-> sorted(MissingOf(expected_indicators, found_indicators)),
             ki_sum_valid |-> ki_ok,
             formula_valid |-> FALSE,
             errors |-> IF ki_ok THEN <<>> ELSE <<ErrKiSum(ki_sum)>>,
             warnings |-> <<>>]
    IN  validate_formula_samples(dovidnyky_df, indicator_columns, validation)

(***************************************************************************)
(* Inputs of validate_methodology.                                         *)
(***************************************************************************)
MaxColEdits == 1

MaxWindow == 5

MaxDovRows == 6

MaxOddRows == 2

IsDistinct(seq) == \A i, j \in 1..Len(seq) : i # j => seq[i] # seq[j]

\* Every way to replace up to n labels of cols by labels of LabelPool.
RECURSIVE Edits(_, _)
Edits(cols, n) ==
    IF n = 0 THEN {cols}
    ELSE LET prev == Edits(cols, n - 1)
         IN  prev \cup { [c EXCEPT ![i] = x] : c \in prev, i \in 1..Len(cols), x \in LabelPool }

EditedColumns == Edits(BaseColumns, MaxColEdits)

ColumnInputs ==
    { cols \in EditedColumns \cup { Append(c, x) : c \in EditedColumns, x \in LabelPool } :
        IsDistinct(cols) }

\* Rows of the five role values, in hundredths: K = 4, E = 2, RPI, KRI and the
\* recorded final score.
RowExact == <<Num(400), Num(200), Num(100), Num(100), Num(600)>>

RowNear == <<Num(400), Num(200), Num(101), Num(99), Num(600)>>

RowWrong == <<Num(400), Num(200), Num(101), Num(99), Num(601)>>

RowText == <<Num(400), Str(<<"n", "/", "a">>), Num(100), Num(100), Num(600)>>

RowEmpty == <<Num(400), Num(200), NaN, Num(100), Num(600)>>

RowDigits == <<Str(<<"4">>), IntCell(2), Num(100), Num(100), Num(600)>>

RowZero == <<Num(0), Num(0), Num(100), Num(100), Num(0)>>

RowNegative == <<Num(-400), Num(-200), Num(100), Num(100), Num(-600)>>

RowNegativeOff == <<Num(-400), Num(-200), Num(100), Num(100), Num(-601)>>

RowPool == {RowExact, RowWrong, RowText}

OddRowPool == {RowExact, RowNear, RowEmpty, RowDigits, RowZero, RowNegative, RowNegativeOff}

RangeIndex(n) == [i \in 1..n |-> i - 1]

\* A sixth column, when there is one, holds 1.5 in every row.
WidenRow(row, ncols) == IF ncols > Len(row) THEN Append(row, Num(150)) ELSE row

DovFrame(cols, rows) ==
    DataFrame(cols, RangeIndex(Len(rows)), [i \in 1..Len(rows) |-> WidenRow(rows[i], Len(cols))])

DovBase == DovFrame(BaseColumns, <<RowExact, RowExact>>)

DovInputs ==
    { DovFrame(cols, <<RowExact, RowExact>>) : cols \in ColumnInputs }
      \cup { DovFrame(BaseColumns, rows) :
               rows \in UNION { [1..n -> RowPool] : n \in 0..MaxDovRows } }
      \cup { DovFrame(BaseColumns, rows) :
               rows \in UNION { [1..n -> OddRowPool] : n \in 0..MaxOddRows } }

ExtraKeys == {SortedKeys[i] : i \in 1..Len(SortedKeys)} \ {Indicator(n) : n \in 1..NumIndicators}

ColumnMap(keys) == [k \in keys |-> 0]

FullColumnMap == ColumnMap(DOMAIN INDICATORS_KI)

\* The identifiers a column map of the model may lack: I1..I<MaxWindow>, and
\* I10 and I37, which Python orders before I2 and after I4.
MissingWindow ==
    {Indicator(n) : n \in 1..MaxWindow} \cup {Indicator(10), Indicator(NumIndicators)}

ColumnMapInputs ==
    { ColumnMap(((DOMAIN INDICATORS_KI) \ m) \cup x) :
        m \in SUBSET MissingWindow, x \in SUBSET ExtraKeys }

ResultsFrame(n) == DataFrame(<<"Nazva">>, RangeIndex(n), [i \in 1..n |-> <<IntCell(i)>>])

ValidateInputs ==
    { [indicator_columns |-> ic, dovidnyky_df |-> DovBase, results_df |-> ResultsFrame(3)] :
        ic \in ColumnMapInputs }
      \cup { [indicator_columns |-> FullColumnMap, dovidnyky_df |-> dov, results_df |-> ResultsFrame(2)] :
               dov \in DovInputs }

InitValidate ==
    /\ workbook = EmptyDict
    /\ InitParser
    /\ arg \in ValidateInputs
    /\ ret = NoCall
    /\ fs = None
    /\ locals = NoLocals

\* validate_methodology, with the assignment of line 334.
ValidateMethodology ==
    /\ ret = NoCall
    /\ LET out == validate_methodology(arg.indicator_columns, arg.dovidnyky_df, arg.results_df)
       IN  /\ validation_results' = out.validation
           /\ ret' = Returned("validate_methodology", out.validation)
           /\ locals' = out.locals
    /\ UNCHANGED <<workbook, sheets, consolidated_data, arg, fs>>

NextValidate == ValidateMethodology

SpecValidate == InitValidate /\ [][NextValidate]_vars

(***************************************************************************)
(* The sheet loaders.  Sheet names, column labels and category labels are  *)
(* transliterated: Rezultaty, Detali 3.0, Madiany, Dynamika; Napriam,      *)
(* Hrupa, Naukovyi napriam * Riven 0; Suspilnyi, Ahrarno-veterynarnyi,     *)
(* Biomedychnyi.                                                           *)
(***************************************************************************)
Lbl(l) == [t |-> "label", l |-> l]

\* value in directions, for one cell (Series.isin): NaN is in no list of labels.
isin(value, directions) ==
    /\ value.t = "label"
    /\ \E i \in 1..Len(directions) : directions[i] = value.l

ColumnPosition(df, col) == CHOOSE i \in 1..Len(df.columns) : df.columns[i] = col

RECURSIVE KeepRows(_, _, _, _)
KeepRows(df, pos, directions, i) ==
    IF i > Len(df.rows) THEN <<>>
    ELSE (IF isin(df.rows[i][pos], directions) THEN <<i>> ELSE <<>>)
           \o KeepRows(df, pos, directions, i + 1)

RECURSIVE DropRows(_, _, _, _)
DropRows(df, pos, directions, i) ==
    IF i > Len(df.rows) THEN <<>>
    ELSE (IF isin(df.rows[i][pos], directions) THEN <<>> ELSE <<i>>)
           \o DropRows(df, pos, directions, i + 1)

\* The positions of the rows that df[col].isin(directions) selects, in order.
SelectedRows(df, pos, directions, i) == KeepRows(df, pos, directions, i)

\* df[df[col].isin(directions)]: the selected rows with their index labels.
FilterByColumn(df, col, directions) ==
    LET keep == SelectedRows(df, ColumnPosition(df, col), directions, 1)
    IN  DataFrame(df.columns,
                  [k \in 1..Len(keep) |-> df.index[keep[k]]],
                  [k \in 1..Len(keep) |-> df.rows[keep[k]]])

FilterSheetOrEmpty(df, col, directions) ==
    IF col \in ColumnSet(df) THEN FilterByColumn(df, col, directions)
    ELSE DataFrame(df.columns, <<>>, <<>>)

\* Lines 190-199 (and 217-226, 244-254, 272-281): copy, then filter when the
\* label column is there.
FilterSheet(df, col, directions) ==
    IF col \in ColumnSet(df) THEN FilterByColumn(df, col, directions) ELSE df

DirectionColumn == "Naukovyi napriam * Riven 0"

parse_results_sheet(sh, directions) ==
    IF "Rezultaty" \notin DOMAIN sh THEN Raised("parse_results_sheet", "KeyError")
    ELSE Returned("parse_results_sheet", FilterSheet(sh["Rezultaty"], "Napriam", directions))

parse_detali_sheet(sh, directions) ==
    IF "Detali 3.0" \notin DOMAIN sh THEN Returned("parse_detali_sheet", None)
    ELSE Returned("parse_detali_sheet", FilterSheet(sh["Detali 3.0"], "Napriam", directions))

parse_dynamika_sheet(sh, directions) ==
    IF "Dynamika" \notin DOMAIN sh THEN Returned("parse_dynamika_sheet", None)
    ELSE Returned("parse_dynamika_sheet", FilterSheet(sh["Dynamika"], DirectionColumn, directions))

parse_medians_sheet(sh, directions) ==
    IF "Madiany" \notin DOMAIN sh THEN Returned("parse_medians_sheet", None)
    ELSE Returned("parse_medians_sheet", FilterSheet(sh["Madiany"], "Napriam", directions))

(***************************************************************************)
(* Workbooks and filters the parser is run on.                             *)
(***************************************************************************)
MaxRows == 3

DefaultDirections == <<"Suspilnyi", "Ahrarno-veterynarnyi">>

DirectionLists == { DefaultDirections, <<"Biomedychnyi">>, <<"Suspilnyi", "Biomedychnyi">> }

\* A row of the results sheet: name, category (Napriam), group (Hrupa).
ResultRowKinds ==
    { <<Lbl("Suspilnyi"), Lbl("A")>>, <<Lbl("Suspilnyi"), Lbl("B")>>,
      <<Lbl("Biomedychnyi"), Lbl("A")>>, <<Lbl("Suspilnyi"), NaN>>, <<NaN, NaN>> }

ResultRowSeqs == UNION { [1..n -> ResultRowKinds] : n \in 0..MaxRows }

\* The results sheet with all three columns, without Napriam, without Hrupa.
ResultsFull(rs) ==
    DataFrame(<<"Nazva", "Napriam", "Hrupa">>, RangeIndex(Len(rs)),
              [i \in 1..Len(rs) |-> <<IntCell(i), rs[i][1], rs[i][2]>>])

ResultsNoCategory(rs) ==
    DataFrame(<<"Nazva", "Hrupa">>, RangeIndex(Len(rs)),
              [i \in 1..Len(rs) |-> <<IntCell(i), rs[i][2]>>])

ResultsNoGroup(rs) ==
    DataFrame(<<"Nazva", "Napriam">>, RangeIndex(Len(rs)),
              [i \in 1..Len(rs) |-> <<IntCell(i), rs[i][1]>>])

ResultsTables ==
    { ResultsFull(rs) : rs \in ResultRowSeqs }
      \cup { ResultsNoCategory(rs) : rs \in ResultRowSeqs }
      \cup { ResultsNoGroup(rs) : rs \in ResultRowSeqs }

ResultsAAB ==
    ResultsFull(<< <<Lbl("Suspilnyi"), Lbl("A")>>, <<Lbl("Suspilnyi"), Lbl("B")>>,
                   <<Lbl("Biomedychnyi"), Lbl("A")>> >>)

OptionalRows ==
    << <<IntCell(1), Lbl("Biomedychnyi")>>, <<IntCell(2), Lbl("Suspilnyi")>>,
       <<IntCell(3), NaN>>, <<IntCell(4), Lbl("Suspilnyi")>> >>

\* An optional sheet labelled with the column col.
OptionalTable(col) == DataFrame(<<"Nazva", col>>, RangeIndex(Len(OptionalRows)), OptionalRows)

\* For each optional sheet: a table with the label column the loader looks
\* for, and a table without it.
OptionalChoices(name) ==
    IF name = "Dynamika" THEN {OptionalTable(DirectionColumn), OptionalTable("Napriam")}
    ELSE {OptionalTable("Napriam"), OptionalTable("Indykator")}

OptionalNames == {"Detali 3.0", "Madiany", "Dynamika"}

\* The optional sheets of a workbook: any subset, each with either table.
OptionalSheets ==
    UNION { {f \in [present -> UNION {OptionalChoices(n) : n \in present}] :
                \A n \in present : f[n] \in OptionalChoices(n)} :
            present \in SUBSET OptionalNames }

WithResults(opt, res) ==
    [n \in (DOMAIN opt) \cup {"Rezultaty"} |-> IF n = "Rezultaty" THEN res ELSE opt[n]]

Workbooks ==
    { WithResults(EmptyDict, res) : res \in ResultsTables }
      \cup { WithResults(opt, ResultsAAB) : opt \in OptionalSheets }
      \cup OptionalSheets

Init ==
    /\ workbook \in Workbooks
    /\ InitParser
    /\ arg = [directions |-> <<>>]
    /\ ret = NoCall
    /\ fs = None
    /\ locals = NoLocals

\* load_all_sheets: self.sheets[sheet_name] = df for every sheet of the file.
LoadAllSheets ==
    /\ sheets' = [n \in (DOMAIN sheets) \cup (DOMAIN workbook) |->
                     IF n \in DOMAIN workbook THEN workbook[n] ELSE sheets[n]]
    /\ ret' = Returned("load_all_sheets", sheets')
    /\ arg' = [directions |-> <<>>]
    /\ UNCHANGED <<workbook, consolidated_data, validation_results, fs, locals>>

Call(result, directions) ==
    /\ ret' = result
    /\ arg' = [directions |-> directions]
    /\ UNCHANGED <<workbook, sheets, consolidated_data, validation_results, fs, locals>>

ParseResultsSheet == \E d \in DirectionLists : Call(parse_results_sheet(sheets, d), d)

ParseDetaliSheet == \E d \in DirectionLists : Call(parse_detali_sheet(sheets, d), d)

ParseDynamikaSheet == \E d \in DirectionLists : Call(parse_dynamika_sheet(sheets, d), d)

ParseMediansSheet == \E d \in DirectionLists : Call(parse_medians_sheet(sheets, d), d)

BundleWithoutAbsent(results_df, detali_df, medians_df, dynamika_df) ==
    LET all == [results |-> results_df, detali |-> detali_df,
                medians |-> medians_df, dynamika |-> dynamika_df]
    IN  [k \in {x \in DOMAIN all : all[x] # None} |-> all[k]]

\* The dict of lines 416-421.
Bundle(results_df, detali_df, medians_df, dynamika_df) ==
    [results |-> results_df, detali |-> detali_df,
     medians |-> medians_df, dynamika |-> dynamika_df]

\* consolidate_data that filters by the default list whatever list it is given.
consolidate_data_default(sh, directions) ==
    LET results == parse_results_sheet(sh, DefaultDirections)
    IN  IF results.raised # "None" THEN Raised("consolidate_data", results.raised)
        ELSE Returned("consolidate_data",
                 Bundle(results.value,
                        parse_detali_sheet(sh, DefaultDirections).value,
                        parse_medians_sheet(sh, DefaultDirections).value,
                        parse_dynamika_sheet(sh, DefaultDirections).value))

\* consolidate_data: a KeyError of parse_results_sheet leaves the parser as it
\* was; otherwise the bundle is stored and returned.
consolidate_data(sh, directions) ==
    LET results == parse_results_sheet(sh, directions)
    IN  IF results.raised # "None" THEN Raised("consolidate_data", results.raised)
        ELSE Returned("consolidate_data",
                 Bundle(results.value,
                        parse_detali_sheet(sh, directions).value,
                        parse_medians_sheet(sh, directions).value,
                        parse_dynamika_sheet(sh, directions).value))

ConsolidateData ==
    \E d \in DirectionLists :
        LET out == consolidate_data(sheets, d)
        IN  /\ ret' = out
            /\ arg' = [directions |-> d]
            /\ consolidated_data' = IF out.raised = "None" THEN out.value ELSE consolidated_data
            /\ UNCHANGED <<workbook, sheets, validation_results, fs, locals>>

Next ==
    \/ LoadAllSheets
    \/ ParseResultsSheet
    \/ ParseDetaliSheet
    \/ ParseDynamikaSheet
    \/ ParseMediansSheet
    \/ ConsolidateData

Spec == Init /\ [][Next]_vars

(***************************************************************************)
(* The exporters.  Block names, science directions and attestation groups  *)
(* are transliterated.  The output directory holds file name -> content.   *)
(***************************************************************************)
IndicatorRange(a, b) == [i \in 1..(b - a + 1) |-> Indicator(a + i - 1)]

BlockNames ==
    << "Kadrovyi potentsial", "Finansova diialnist", "Publikatsiina aktyvnist",
       "Intelektualna vlasnist", "Konkursne finansuvannia" >>

\* The blocks as the comments of lines 30-38 group the weights: I23 closes the
\* third block.
INDICATOR_BLOCKS_AsCommented ==
    [b \in {BlockNames[i] : i \in 1..Len(BlockNames)} |->
        CASE b = "Kadrovyi potentsial" -> IndicatorRange(1, 6)
          [] b = "Finansova diialnist" -> IndicatorRange(7, 14)
          [] b = "Publikatsiina aktyvnist" -> IndicatorRange(15, 23)
          [] b = "Intelektualna vlasnist" -> IndicatorRange(24, 31)
          [] b = "Konkursne finansuvannia" -> IndicatorRange(32, 37)]

INDICATOR_BLOCKS ==
    [b \in {BlockNames[i] : i \in 1..Len(BlockNames)} |->
        CASE b = "Kadrovyi potentsial" -> IndicatorRange(1, 6)
          [] b = "Finansova diialnist" -> IndicatorRange(7, 14)
          [] b = "Publikatsiina aktyvnist" -> IndicatorRange(15, 22)
          [] b = "Intelektualna vlasnist" -> IndicatorRange(23, 31)
          [] b = "Konkursne finansuvannia" -> IndicatorRange(32, 37)]

SCIENCE_DIRECTIONS ==
    << "Ahrarno-veterynarnyi", "Humanitarno-mystetskyi", "Suspilnyi", "Biomedychnyi",
       "Pryrodnycho-matematychnyi", "Inzhenerno-tekhnolohichnyi", "Bezpekovyi" >>

ATTESTATION_GROUPS ==
    [A |-> [min |-> 75, max |-> 100], B |-> [min |-> 50, max |-> 75],
     V |-> [min |-> 25, max |-> 50], H |-> [min |-> 0, max |-> 25]]

\* The dict of lines 472-480.
Methodology ==
    [total_ki |-> TOTAL_KI,
     indicators |-> INDICATORS_KI,
     blocks |-> INDICATOR_BLOCKS,
     science_directions |-> SCIENCE_DIRECTIONS,
     attestation_groups |-> ATTESTATION_GROUPS,
     indicators_count |-> Cardinality(DOMAIN INDICATORS_KI),
     blocks_count |-> Cardinality(DOMAIN INDICATOR_BLOCKS)]

\* output_dir.mkdir(parents=True, exist_ok=True)
mkdir(dir) == IF dir = None THEN EmptyDict ELSE dir

\* open(output_dir / name, 'w') and dump: the file is created or overwritten.
WriteFile(dir, name, content) == DictSet(dir, name, content)

\* df.replace({np.nan: None}).to_dict('records'): one record per row.
ReplaceNaN(value) == IF notna(value) THEN value ELSE None

to_dict_records(df) ==
    [i \in 1..Len(df.rows) |->
        [c \in ColumnSet(df) |-> ReplaceNaN(df.rows[i][ColumnPosition(df, c)])]]

\* df.to_csv(path, index=False): the header line and one line per row, a
\* missing value giving an empty field.
CsvField(value) == IF notna(value) THEN value ELSE Str(<<>>)

to_csv(df) ==
    [header |-> df.columns,
     lines |-> [i \in 1..Len(df.rows) |-> [j \in 1..Len(df.columns) |-> CsvField(df.rows[i][j])]]]

\* The guard of lines 451, 488, 498, 507 and 516.
HasRows(df) == df # None /\ len(df) > 0

WriteRecords(dir, df, name) ==
    IF HasRows(df) THEN WriteFile(dir, name, to_dict_records(df)) ELSE dir

\* series.unique(): the distinct values in order of first appearance.
RECURSIVE unique(_, _, _)
unique(values, i, acc) ==
    IF i > Len(values) THEN acc
    ELSE unique(values, i + 1,
                IF \E j \in 1..Len(acc) : acc[j] = values[i] THEN acc
                ELSE Append(acc, values[i]))

ColumnValues(df, col) == [i \in 1..Len(df.rows) |-> df.rows[i][ColumnPosition(df, col)]]

\* df[df[col] == value]: NaN equals nothing, itself included.
RowsEqual(df, col, value) ==
    LET pos == ColumnPosition(df, col)
        keep == SelectSeq([i \in 1..Len(df.rows) |-> i],
                          LAMBDA i : notna(value) /\ df.rows[i][pos] = value)
    IN  DataFrame(df.columns,
                  [k \in 1..Len(keep) |-> df.index[keep[k]]],
                  [k \in 1..Len(keep) |-> df.rows[keep[k]]])

GroupCountOverall(results_df, direction_data, group) ==
    len(RowsEqual(results_df, "Hrupa", group))

\* direction_data[direction_data['Hrupa'] == group].shape[0]
GroupCount(results_df, direction_data, group) ==
    len(RowsEqual(direction_data, "Hrupa", group))

\* Lines 530-534.
groups_count(results_df, direction_data) ==
    IF "Hrupa" \in ColumnSet(direction_data)
    THEN LET groups == unique(ColumnValues(direction_data, "Hrupa"), 1, <<>>)
         IN  [g \in {groups[i] : i \in {j \in 1..Len(groups) : notna(groups[j])}} |->
                 GroupCount(results_df, direction_data, g)]
    ELSE EmptyDict

\* Lines 525-539.
stats_by_direction(results_df) ==
    LET directions == unique(ColumnValues(results_df, "Napriam"), 1, <<>>)
    IN  [d \in {directions[i] : i \in 1..Len(directions)} |->
            LET direction_data == RowsEqual(results_df, "Napriam", d)
            IN  [total |-> len(direction_data),
                 groups |-> groups_count(results_df, direction_data)]]

CsvNames ==
    [results |-> "results.csv", detali |-> "detali.csv",
     medians |-> "medians.csv", dynamika |-> "dynamika.csv"]

BundleOrder == <<"results", "detali", "medians", "dynamika">>

RECURSIVE WriteCsvFiles(_, _, _)
WriteCsvFiles(dir, data, i) ==
    IF i > Len(BundleOrder) THEN dir
    ELSE LET name == BundleOrder[i]
         IN  WriteCsvFiles(IF HasRows(data[name])
                           THEN WriteFile(dir, CsvNames[name], to_csv(data[name]))
                           ELSE dir,
                           data, i + 1)

\* export_to_csv: what it returns or raises and the directory it leaves.
export_to_csv(data, dir) ==
    IF data = None
    THEN [ret |-> Raised("export_to_csv", "ValueError"), fs |-> dir]
    ELSE [ret |-> Returned("export_to_csv", None),
          fs |-> WriteCsvFiles(mkdir(dir), data, 1)]

\* export_to_json: what it returns or raises and the directory it leaves.
export_to_json(data, dir) ==
    LET made == mkdir(dir)
    IN  IF data = None
        THEN [ret |-> Raised("export_to_json", "ValueError"), fs |-> made]
        ELSE LET f1 == WriteFile(made, "methodology.json", Methodology)
                 f2 == WriteRecords(f1, data.results, "all_results.json")
                 f3 == WriteRecords(f2, data.detali, "detali.json")
                 f4 == WriteRecords(f3, data.medians, "medians.json")
                 f5 == WriteRecords(f4, data.dynamika, "dynamika.json")
                 f6 == IF HasRows(data.results) /\ "Napriam" \in ColumnSet(data.results)
                       THEN WriteFile(f5, "stats_by_direction.json",
                                      stats_by_direction(data.results))
                       ELSE f5
             IN  [ret |-> Returned("export_to_json", None), fs |-> f6]

ExportToCsv ==
    LET out == export_to_csv(consolidated_data, fs)
    IN  /\ ret' = out.ret
        /\ fs' = out.fs
        /\ arg' = [output_dir |-> "out"]
        /\ UNCHANGED <<workbook, sheets, consolidated_data, validation_results, locals>>

ExportToJson ==
    LET out == export_to_json(consolidated_data, fs)
    IN  /\ ret' = out.ret
        /\ fs' = out.fs
        /\ arg' = [output_dir |-> "out"]
        /\ UNCHANGED <<workbook, sheets, consolidated_data, validation_results, locals>>

NextExport ==
    \/ LoadAllSheets
    \/ ConsolidateData
    \/ ExportToCsv
    \/ ExportToJson

SpecExport == Init /\ [][NextExport]_vars

(***************************************************************************)
(* Properties of the Header Resolver.                                      *)
(***************************************************************************)
IsIndicatorLabel(s) ==
    /\ Len(s) >= 2
    /\ s[1] = "I"
    /\ \A i \in 2..Len(s) : s[i] \in Digits

\* s without its leading and trailing whitespace, stated without recursion.
TrimOf(s) ==
    LET core == {i \in 1..Len(s) : s[i] \notin Whitespace}
    IN  IF core = {} THEN <<>>
        ELSE LET lo == CHOOSE i \in core : \A j \in core : i <= j
                 hi == CHOOSE i \in core : \A j \in core : j <= i
             IN  [i \in 1..(hi - lo + 1) |-> s[lo + i - 1]]

\* The positions (1-based) of the row whose cell reads as the indicator label k.
LabelPositions(row, k) ==
    {p \in 1..Len(row) : row[p].t = "str" /\ TrimOf(row[p].s) = k /\ IsIndicatorLabel(k)}

RowLabels(row) ==
    {TrimOf(row[p].s) : p \in {q \in 1..Len(row) :
                                  row[q].t = "str" /\ IsIndicatorLabel(TrimOf(row[q].s))}}

ResolverReturned == ret.op = "_extract_indicator_columns" /\ ret.raised = "None"

\* C4: the map returned by _extract_indicator_columns has an entry for an
\* identifier exactly when some cell of the first row, trimmed, is "I" followed
\* by digits only, and the entry is the 0-based position of such a cell; for the
\* row "I1", "foo", "I37", "I1*", "" the map is exactly {I1: 0, I37: 2}.
C4_HeaderResolverMap ==
    ResolverReturned =>
        LET row == arg.df_raw[1]
            m == ret.value
        IN  /\ DOMAIN m = RowLabels(row)
            /\ \A k \in DOMAIN m : (m[k] + 1) \in LabelPositions(row, k)
            /\ (row = ExampleHeaderRow =>
                   /\ DOMAIN m = {<<"I", "1">>, <<"I", "3", "7">>}
                   /\ m[<<"I", "1">>] = 0
                   /\ m[<<"I", "3", "7">>] = 2)

C4_Witness ==
    /\ ResolverReturned
    /\ arg.df_raw = <<ExampleHeaderRow, DecoyRow>>
    /\ Cardinality(DOMAIN ret.value) = 2

\* C5: when an indicator label occurs in several cells of the header row, the
\* map holds one entry for it, valued with the position of its right-most
\* occurrence; nothing is raised, and every other identifier keeps the position
\* of its own right-most occurrence.
C5_LastDuplicateWins ==
    /\ (ret.op = "_extract_indicator_columns" /\ Len(arg.df_raw) > 0 => ret.raised = "None")
    /\ (ResolverReturned =>
           LET row == arg.df_raw[1]
               m == ret.value
           IN  \A k \in RowLabels(row) :
                   /\ k \in DOMAIN m
                   /\ \A p \in LabelPositions(row, k) : p <= m[k] + 1
                   /\ (m[k] + 1) \in LabelPositions(row, k))

C5_Witness ==
    /\ ResolverReturned
    /\ Cardinality(DOMAIN ret.value) = 2
    /\ \E k \in DOMAIN ret.value :
           /\ Cardinality(LabelPositions(arg.df_raw[1], k)) = 2
           /\ ret.value[k] = 2

(***************************************************************************)
(* Properties of the Schema Validator and the Formula Sampler.             *)
(***************************************************************************)
ValidateReturned == ret.op = "validate_methodology" /\ ret.raised = "None"

RegistryIds == {<<"I">> \o Decimal(n) : n \in 1..37}

SeqRange(seq) == {seq[i] : i \in 1..Len(seq)}

\* Strictly ascending in Python's string order (so without repetition).
Ascending(seq) == \A i \in 1..(Len(seq) - 1) : StrLess(seq[i], seq[i + 1])

\* C6: indicators_missing is the sorted list of exactly the registry
\* identifiers that are not keys of the column map, indicators_found is the
\* sorted list of the keys, and a key outside the registry (I40) is never
\* reported missing; for the map of all identifiers but I5, indicators_missing
\* is ["I5"] and indicators_found has 36 entries.
C6_MissingAndFoundSorted ==
    ValidateReturned =>
        LET keys == DOMAIN arg.indicator_columns
            v == ret.value
        IN  /\ Ascending(v.indicators_missing)
            /\ SeqRange(v.indicators_missing) = {k \in RegistryIds : k \notin keys}
            /\ Ascending(v.indicators_found)
            /\ SeqRange(v.indicators_found) = keys
            /\ \A k \in keys \ RegistryIds : k \notin SeqRange(v.indicators_missing)
            /\ (keys = RegistryIds \ {<<"I", "5">>} =>
                   /\ v.indicators_missing = << <<"I", "5">> >>
                   /\ Len(v.indicators_found) = 36)

C6_Witness ==
    /\ ValidateReturned
    /\ DOMAIN arg.indicator_columns = (RegistryIds \ {<<"I", "5">>}) \cup {<<"I", "4", "0">>}
    /\ ret.value.indicators_missing = << <<"I", "5">> >>
    /\ Len(ret.value.indicators_found) = 37

\* The number a cell coerces to (in hundredths), for a cell that coerces.
Coerces(cell) ==
    \/ cell.t \in {"num", "int"}
    \/ (cell.t = "str" /\ cell.s # <<>> /\ \A i \in 1..Len(cell.s) : cell.s[i] \in Digits)

ValueOf(cell) ==
    CASE cell.t = "num" -> cell.v
      [] cell.t = "int" -> 100 * cell.n
      [] OTHER -> 100 * ParseDecimal(cell.s)

CellAt(df, i, col) == df.rows[i][CHOOSE c \in 1..Len(df.columns) : df.columns[c] = col]

\* Row i (1-based) agrees with A = (K + E) * RPI * KRI: all five values are
\* numbers and |A_calc - A| < 0.001 * max(A, 0.01), in units of 10^-6.
RowAgrees(df, rc, i) ==
    LET K == CellAt(df, i, rc["classification"])
        E == CellAt(df, i, rc["expert"])
        R == CellAt(df, i, rc["regional"])
        D == CellAt(df, i, rc["destruction"])
        A == CellAt(df, i, rc["final"])
    IN  /\ Coerces(K) /\ Coerces(E) /\ Coerces(R) /\ Coerces(D) /\ Coerces(A)
        /\ LET calc == (ValueOf(K) + ValueOf(E)) * ValueOf(R) * ValueOf(D)
               actual == 10000 * ValueOf(A)
               bound == IF ValueOf(A) > 1 THEN 10 * ValueOf(A) ELSE 10
               diff == IF calc > actual THEN calc - actual ELSE actual - calc
           IN  diff < bound

AgreeingRows(df, rc, n) == {i \in 1..n : RowAgrees(df, rc, i)}

HasAll(label, subs) == \A k \in subs : contains(k, lower(label))

Qualifies(role, label) ==
    CASE role = "classification" -> HasAll(label, {KwKlasyfikatsiina, KwOtsinka})
      [] role = "expert" -> HasAll(label, {KwEkspertna, KwOtsinka})
      [] role = "regional" -> HasAll(label, {KwRehionalnyi, KwKoiefits})
      [] role = "destruction" -> HasAll(label, {KwRuinuvanSoft}) \/ HasAll(label, {KwRuinuvannia})
      [] OTHER -> HasAll(label, {KwAtestatsiina, KwOtsinka})

\* Qualifies, tabulated for the roles and the column labels of the model.
QualifiesTable ==
    [r \in SeqRange(Roles) |-> [l \in LabelPool |-> Qualifies(r, l)]]

RolePosition(role) == CHOOSE i \in 1..Len(Roles) : Roles[i] = role

\* The label qualifies for the role and for no role tested before it.
TakenFor(role, label) ==
    /\ QualifiesTable[role][label]
    /\ \A i \in 1..(RolePosition(role) - 1) : ~QualifiesTable[Roles[i]][label]

\* C8 as stated: the column used for a role is the first column, in the table's
\* column order, whose lower-cased label contains all of the role's substrings.
C8_FirstQualifyingWins ==
    ValidateReturned =>
        LET cols == arg.dovidnyky_df.columns
        IN  \A r \in DOMAIN locals.role_cols :
                LET q == {i \in 1..Len(cols) : QualifiesTable[r][cols[i]]}
                IN  IF q = {} THEN locals.role_cols[r] = NoCol
                    ELSE locals.role_cols[r] = cols[CHOOSE i \in q : \A j \in q : i <= j]

\* C8 amended: a column is taken for a role when its lower-cased label contains
\* the role's substrings and qualifies for no role tested earlier (order:
\* classification, expert, regional, destruction, final); the column used for a
\* role is the last column taken for it in the table's column order.
C8_LastTakenWins ==
    ValidateReturned =>
        LET cols == arg.dovidnyky_df.columns
        IN  \A r \in DOMAIN locals.role_cols :
                LET q == {i \in 1..Len(cols) : TakenFor(r, cols[i])}
                IN  IF q = {} THEN locals.role_cols[r] = NoCol
                    ELSE locals.role_cols[r] = cols[CHOOSE i \in q : \A j \in q : j <= i]

C8_Witness ==
    /\ ValidateReturned
    /\ arg.dovidnyky_df.columns[1] = ColClassification
    /\ Len(arg.dovidnyky_df.columns) = 6
    /\ arg.dovidnyky_df.columns[6] = ColClassification1
    /\ locals.role_cols["classification"] = ColClassification1
    /\ ~ret.value.formula_valid

\* C9: a formula check that does not pass is recorded as a warning only: with a
\* role column missing no row is sampled, formula_valid is false and a warning
\* is appended; with the threshold missed formula_valid is false and a warning
\* is appended; validate_methodology returns and errors holds nothing from the
\* formula check.
C9_FormulaFailureIsWarning ==
    /\ (ret.op = "validate_methodology" => ret.raised = "None")
    /\ (ValidateReturned =>
           LET v == ret.value
               missing_role == \E r \in DOMAIN locals.role_cols : locals.role_cols[r] = NoCol
           IN  /\ \A i \in 1..Len(v.errors) : v.errors[i].msg = "Ki sum mismatch"
               /\ (missing_role =>
                      /\ ~locals.sampled
                      /\ ~v.formula_valid
                      /\ \E i \in 1..Len(v.warnings) :
                             v.warnings[i].msg = "formula columns not found")
               /\ (~missing_role /\ ~v.formula_valid =>
                      \E i \in 1..Len(v.warnings) :
                          /\ v.warnings[i].msg = "formula not validated"
                          /\ v.warnings[i].matches = locals.matches
                          /\ v.warnings[i].sample_size = locals.sample_size)
               /\ (~missing_role /\ 5 * locals.matches < 4 * locals.sample_size =>
                      ~v.formula_valid))

C9_Witness ==
    /\ ValidateReturned
    /\ locals.role_cols["regional"] = NoCol
    /\ ~locals.sampled
    /\ ~ret.value.formula_valid
    /\ Len(ret.value.warnings) = 1
    /\ ret.value.errors = <<>>

\* C10: whenever the column map lacks a registry indicator, the report has a
\* non-empty warnings list that holds a warning for the missing indicators.
C10_MissingIndicatorsWarned ==
    (ValidateReturned /\ ret.value.indicators_missing # <<>>) =>
        /\ ret.value.warnings # <<>>
        /\ \E i \in 1..Len(ret.value.warnings) :
               ret.value.warnings[i].msg \notin {"formula not validated", "formula columns not found"}

(***************************************************************************)
(* Properties of the sheet loaders and of consolidate_data (Spec).         *)
(***************************************************************************)
Loaders ==
    [parse_results_sheet |-> [sheet |-> "Rezultaty", col |-> "Napriam"],
     parse_detali_sheet |-> [sheet |-> "Detali 3.0", col |-> "Napriam"],
     parse_medians_sheet |-> [sheet |-> "Madiany", col |-> "Napriam"],
     parse_dynamika_sheet |-> [sheet |-> "Dynamika", col |-> DirectionColumn]]

LoaderSheet(op) == Loaders[op].sheet

\* A loader has returned a table read from a sheet that has its label column.
LoaderFiltered ==
    /\ ret.op \in DOMAIN Loaders
    /\ ret.raised = "None"
    /\ LoaderSheet(ret.op) \in DOMAIN sheets
    /\ Loaders[ret.op].col \in ColumnSet(sheets[LoaderSheet(ret.op)])

FilterSet == {arg.directions[i] : i \in 1..Len(arg.directions)}

\* The positions of the source rows whose category is in the filter set.
MemberRows(src, col) ==
    {i \in 1..Len(src.rows) :
        \E j \in 1..Len(src.columns) :
            /\ src.columns[j] = col
            /\ src.rows[i][j] # NaN
            /\ src.rows[i][j].l \in FilterSet}

\* C1: when the sheet has its category label column, the table a loader returns
\* consists of exactly the source rows whose category is in the filter set, in
\* their original order: every returned row is such a source row, the returned
\* rows come from strictly increasing source positions, and there are as many
\* of them as there are such rows in the source.
C1_LoaderFiltersByCategory ==
    LoaderFiltered =>
        LET src == sheets[LoaderSheet(ret.op)]
            out == ret.value
            members == MemberRows(src, Loaders[ret.op].col)
        IN  /\ out.columns = src.columns
            /\ Len(out.index) = Len(out.rows)
            /\ Len(out.rows) = Cardinality(members)
            /\ \A k \in 1..Len(out.rows) :
                   /\ out.index[k] + 1 \in members
                   /\ out.rows[k] = src.rows[out.index[k] + 1]
            /\ \A k \in 1..(Len(out.rows) - 1) : out.index[k] < out.index[k + 1]

\* The dynamics loader has kept the second and the fourth of four rows, the
\* first carrying another category and the third no category at all.
C1_Witness ==
    /\ LoaderFiltered
    /\ ret.op = "parse_dynamika_sheet"
    /\ arg.directions = DefaultDirections
    /\ Len(sheets["Dynamika"].rows) = 4
    /\ ret.value.index = <<1, 3>>

OptionalKeys == [detali |-> "Detali 3.0", medians |-> "Madiany", dynamika |-> "Dynamika"]

C3_ValidationReportStored ==
    (ret.op = "consolidate_data" /\ ret.raised = "None") =>
        /\ validation_results # EmptyDict
        /\ {"indicators_found", "indicators_missing", "ki_sum_valid"}
               \subseteq DOMAIN validation_results

\* A loader was called on a loaded sheet that lacks its label column.
LoaderUnfilterable ==
    /\ ret.op \in DOMAIN Loaders
    /\ LoaderSheet(ret.op) \in DOMAIN sheets
    /\ Loaders[ret.op].col \notin ColumnSet(sheets[LoaderSheet(ret.op)])

BundleLoader ==
    [results |-> "parse_results_sheet", detali |-> "parse_detali_sheet",
     medians |-> "parse_medians_sheet", dynamika |-> "parse_dynamika_sheet"]

\* C11: a loader called on a loaded sheet without its category label column
\* returns the whole sheet (same columns, index and rows) and does not raise;
\* consolidate_data with the results sheet loaded does not raise either and
\* carries every such sheet unfiltered in the bundle.
C11_NoLabelColumnUnfiltered ==
    /\ LoaderUnfilterable =>
          /\ ret.raised = "None"
          /\ ret.value = sheets[LoaderSheet(ret.op)]
    /\ (ret.op = "consolidate_data" /\ "Rezultaty" \in DOMAIN sheets) =>
          /\ ret.raised = "None"
          /\ \A k \in DOMAIN BundleLoader :
                 LET l == Loaders[BundleLoader[k]]
                 IN  (l.sheet \in DOMAIN sheets /\ l.col \notin ColumnSet(sheets[l.sheet]))
                         => ret.value[k] = sheets[l.sheet]

\* The dynamics loader met a sheet whose label column is called Napriam and
\* returned all four of its rows, the filter naming one category only.
C11_Witness ==
    /\ LoaderUnfilterable
    /\ ret.op = "parse_dynamika_sheet"
    /\ "Napriam" \in ColumnSet(sheets["Dynamika"])
    /\ arg.directions = <<"Biomedychnyi">>
    /\ Len(ret.value.rows) = 4

(***************************************************************************)
(* Properties of the exporters (SpecExport).                               *)
(***************************************************************************)
ExportedJson == ret.op = "export_to_json" /\ ret.raised = "None"

\* C12: after every export_to_json call that succeeds (so one that follows a
\* successful consolidate_data) the output directory holds methodology.json
\* and validation.json.
C12_ValidationJsonProduced ==
    ExportedJson =>
        /\ fs # None
        /\ {"methodology.json", "validation.json"} \subseteq DOMAIN fs

JsonNames ==
    [results |-> "all_results.json", detali |-> "detali.json",
     medians |-> "medians.json", dynamika |-> "dynamika.json"]

\* C13: after a successful export_to_json, for each of results, detali,
\* medians, dynamika the record file is in the output directory exactly when
\* the bundle's table is not None (a table with zero rows included), and it
\* holds one record per row of the table.
C13_RecordFilePerPresentTable ==
    ExportedJson =>
        \A k \in DOMAIN JsonNames :
            /\ (JsonNames[k] \in DOMAIN fs) <=> (consolidated_data[k] # None)
            /\ (JsonNames[k] \in DOMAIN fs /\ consolidated_data[k] # None) =>
                   Len(fs[JsonNames[k]]) = Len(consolidated_data[k].rows)

RECURSIVE SumDict(_, _)
SumDict(f, S) ==
    IF S = {} THEN 0
    ELSE LET x == CHOOSE y \in S : TRUE IN f[x] + SumDict(f, S \ {x})

\* export_to_json has just written stats_by_direction.json from the results
\* table of the bundle.
StatsWritten ==
    /\ ExportedJson
    /\ Len(consolidated_data.results.rows) > 0
    /\ "Napriam" \in ColumnSet(consolidated_data.results)

\* C14: the keys of stats_by_direction are exactly the category labels of the
\* results rows; total is the number of rows of the category; groups maps each
\* non-null group label among those rows to its number of rows and is empty
\* without a group column; the group counts of a category sum to at most its
\* total and the totals sum to the number of results rows.
C14_StatsByDirection ==
    StatsWritten =>
        LET df == consolidated_data.results
            rows == 1..Len(df.rows)
            withGroups == "Hrupa" \in ColumnSet(df)
            RowsOf(d) == {i \in rows : CellAt(df, i, "Napriam") = d}
        IN  /\ "stats_by_direction.json" \in DOMAIN fs
            /\ LET st == fs["stats_by_direction.json"]
               IN  /\ DOMAIN st = {CellAt(df, i, "Napriam") : i \in rows}
                   /\ \A d \in DOMAIN st :
                          /\ d.t = "label"
                          /\ st[d].total = Cardinality(RowsOf(d))
                          /\ ~withGroups => st[d].groups = EmptyDict
                          /\ withGroups =>
                                /\ DOMAIN st[d].groups =
                                       {CellAt(df, i, "Hrupa") : i \in RowsOf(d)} \ {NaN}
                                /\ \A g \in DOMAIN st[d].groups :
                                       st[d].groups[g] = Cardinality(
                                           {i \in RowsOf(d) : CellAt(df, i, "Hrupa") = g})
                          /\ SumDict(st[d].groups, DOMAIN st[d].groups) <= st[d].total
                   /\ SumDict([d \in DOMAIN st |-> st[d].total], DOMAIN st) = Len(df.rows)

\* Two categories were exported; the first has two rows, one of them without a
\* group, and both categories have a row of group A.
C14_Witness ==
    /\ StatsWritten
    /\ LET st == fs["stats_by_direction.json"]
       IN  /\ DOMAIN st = {Lbl("Suspilnyi"), Lbl("Biomedychnyi")}
           /\ st[Lbl("Suspilnyi")] = [total |-> 2, groups |-> [g \in {Lbl("A")} |-> 1]]
           /\ st[Lbl("Biomedychnyi")] = [total |-> 1, groups |-> [g \in {Lbl("A")} |-> 1]]

RECURSIVE SeqSum(_, _, _)
SeqSum(weights, ids, i) ==
    IF i > Len(ids) THEN 0 ELSE weights[ids[i]] + SeqSum(weights, ids, i + 1)

\* The subtotals 5.5, 13.5, 7.8, 13.7, 13.5 in hundredths.
BlockSubtotals == <<550, 1350, 780, 1370, 1350>>

\* The blocks partition the identifiers of weights, with the subtotals above.
BlocksPartition(blocks, weights) ==
    /\ DOMAIN blocks = {BlockNames[i] : i \in 1..Len(BlockNames)}
    /\ UNION {{blocks[b][i] : i \in 1..Len(blocks[b])} : b \in DOMAIN blocks}
           = DOMAIN weights
    /\ DOMAIN weights = {Indicator(n) : n \in 1..37}
    /\ \A b \in DOMAIN blocks : \A i, j \in 1..Len(blocks[b]) :
           blocks[b][i] = blocks[b][j] => i = j
    /\ \A b, c \in DOMAIN blocks : \A i \in 1..Len(blocks[b]) : \A j \in 1..Len(blocks[c]) :
           blocks[b][i] = blocks[c][j] => b = c
    /\ \A k \in 1..Len(BlockNames) :
           Abs(SeqSum(weights, blocks[BlockNames[k]], 1) - BlockSubtotals[k]) < 1

RegistryPartitioned == BlocksPartition(INDICATOR_BLOCKS, INDICATORS_KI)

C17_NoExportBeforeConsolidation ==
    [][(consolidated_data = None /\ ret'.op \in {"export_to_csv", "export_to_json"}) =>
          /\ ret'.raised = "ValueError"
          /\ fs' = fs
          /\ UNCHANGED <<sheets, consolidated_data, validation_results>>]_vars

\* The table a loader is to return for a sheet, from the sheet alone.
ExpectedTable(src, col) ==
    IF col \notin ColumnSet(src) THEN src
    ELSE LET keep == SelectSeq([i \in 1..Len(src.rows) |-> i],
                               LAMBDA i : i \in MemberRows(src, col))
         IN  DataFrame(src.columns,
                       [k \in 1..Len(keep) |-> src.index[keep[k]]],
                       [k \in 1..Len(keep) |-> src.rows[keep[k]]])

\* C19: the loaded sheets are always what load_all_sheets read from the
\* workbook, and the bundle returned and stored by a consolidate_data call is
\* the one that call's filter gives on those sheets, whatever calls came before.
C19_ConsolidationStateless ==
    /\ sheets \in {EmptyDict, workbook}
    /\ (ret.op = "consolidate_data" /\ ret.raised = "None") =>
          /\ sheets = workbook
          /\ consolidated_data = ret.value
          /\ \A k \in DOMAIN BundleLoader :
                 LET l == Loaders[BundleLoader[k]]
                 IN  ret.value[k] = IF l.sheet \in DOMAIN workbook
                                    THEN ExpectedTable(workbook[l.sheet], l.col)
                                    ELSE None

\* consolidate_data has returned a results table of another length than the
\* one an earlier consolidation gave and export_to_json wrote to disk.
C19_Witness ==
    /\ ret.op = "consolidate_data"
    /\ ret.raised = "None"
    /\ fs # None
    /\ "all_results.json" \in DOMAIN fs
    /\ Len(fs["all_results.json"]) = 2
    /\ Len(ret.value.results.rows) = 1
    /\ arg.directions = <<"Biomedychnyi">>

(***************************************************************************)
(* Properties of the registry and of the formula verdict (SpecValidate).   *)
(***************************************************************************)
\* C15: the registry has exactly the identifiers I1..I37, every weight lies in
\* (0, 4.0], the weights sum to TOTAL_KI = 54.0 within 0.01, and every report of
\* validate_methodology has ki_sum_valid true and no errors.
C15_RegistryInvariant ==
    /\ DOMAIN INDICATORS_KI = {Indicator(n) : n \in 1..37}
    /\ Cardinality(DOMAIN INDICATORS_KI) = 37
    /\ \A id \in DOMAIN INDICATORS_KI : 0 < INDICATORS_KI[id] /\ INDICATORS_KI[id] <= 400
    /\ TOTAL_KI = 5400
    /\ Abs(SumDict(INDICATORS_KI, DOMAIN INDICATORS_KI) - TOTAL_KI) < 1
    /\ ValidateReturned =>
          /\ ret.value.ki_sum_valid
          /\ ret.value.errors = <<>>
          /\ validation_results = ret.value

\* A report that lists several missing indicators and whose Ki sum is valid
\* all the same.
C15_Witness ==
    /\ ValidateReturned
    /\ ret.value.ki_sum_valid
    /\ ret.value.errors = <<>>
    /\ Len(ret.value.indicators_missing) >= 2

\* C18: whenever validate_methodology reports formula_valid true, at least one
\* sampled row was evaluated and matched the formula; with the five role
\* columns and no data row formula_valid is false.
C18_FormulaValidNeedsEvidence ==
    (ValidateReturned /\ ret.value.formula_valid) =>
        /\ locals.sampled
        /\ locals.sample_size >= 1
        /\ locals.matches >= 1

====
